---- MODULE Spec2Model ----
(***************************************************************************)
(* Model of MedicalEmailAgent (src/emails.py): the mailbox run             *)
(* process_emails, the requirement extraction extract_requirements and    *)
(* its helpers _parse_date and _calculate_shift_duration.                  *)
(*                                                                         *)
(* Text is a sequence of one-character strings, so that lower/upper,       *)
(* substring search, the two regular expressions, strptime and strftime    *)
(* are computed as the code computes them.                                 *)
(***************************************************************************)
EXTENDS Integers, Sequences, FiniteSets, TLC

VARIABLES
    conn,          \* self.conn: "none" (None) or "open"
    mailbox,       \* the IMAP server's unseen messages: id -> raw email
    moved,         \* ids the server holds in folder "Processed"
    emails,        \* process_emails: the list conn.search returned
    idx,           \* process_emails: position of the for loop in emails
    pc,            \* the statement the run is at
    parsed_email,  \* process_emails: parse_email's result for the current id
    text,          \* extract_requirements: its argument
    oracle,        \* what the recognizer's statistical NER answers for text
    doc_ents,      \* extract_requirements: doc.ents, in document order
    ei,            \* extract_requirements: position of the loop over doc.ents
    requirements,  \* extract_requirements: the record under construction
    results,       \* process_emails: the list of result records
    ret,           \* what process_emails returned (NoReturn before it returns)
    log            \* the steps of the run so far, in order, each with its outcome

vars == <<conn, mailbox, moved, emails, idx, pc, parsed_email, text, oracle,
          doc_ents, ei, requirements, results, ret, log>>

(***************************************************************************)
(* Bounds of the model.                                                    *)
(***************************************************************************)
MaxEmails == 2
MaxPhrases == 2
MaxNerEnts == 2
MaxHourIn == 24

(***************************************************************************)
(* Characters.                                                             *)
(***************************************************************************)
Range(s) == {s[i] : i \in 1..Len(s)}

DigitChars == <<"0", "1", "2", "3", "4", "5", "6", "7", "8", "9">>

LowerChars == <<"a", "b", "c", "d", "e", "f", "g", "h", "i", "j", "k", "l", "m",
                "n", "o", "p", "q", "r", "s", "t", "u", "v", "w", "x", "y", "z",
                "à", "é", "è">>

UpperChars == <<"A", "B", "C", "D", "E", "F", "G", "H", "I", "J", "K", "L", "M",
                "N", "O", "P", "Q", "R", "S", "T", "U", "V", "W", "X", "Y", "Z",
                "À", "É", "È">>

DigitSet == Range(DigitChars)

LowerSet == Range(LowerChars)

UpperSet == Range(UpperChars)

IsDigit(c) == c \in DigitSet

DigitVal(c) == CHOOSE k \in 0..9 : DigitChars[k + 1] = c

\* \s of the re module
IsSpace(c) == c \in {" ", "\n", "\t"}

\* \w of the re module: letters, digits and the underscore
IsWordChar(c) == c \in DigitSet \cup LowerSet \cup UpperSet \cup {"_"}

\* str.lower() on one character
LowerChar(c) ==
    IF c \in UpperSet
    THEN LowerChars[CHOOSE k \in 1..Len(UpperChars) : UpperChars[k] = c]
    ELSE c

\* str.upper() on one character
UpperChar(c) ==
    IF c \in LowerSet
    THEN UpperChars[CHOOSE k \in 1..Len(LowerChars) : LowerChars[k] = c]
    ELSE c

\* str.lower()
Lower(s) == [i \in 1..Len(s) |-> LowerChar(s[i])]

\* str.upper()
Upper(s) == [i \in 1..Len(s) |-> UpperChar(s[i])]

\* `w in s` on strings
Contains(s, w) == \E i \in 1..(Len(s) - Len(w) + 1) : SubSeq(s, i, i + Len(w) - 1) = w

\* `x in xs` on lists
InList(x, xs) == \E i \in 1..Len(xs) : xs[i] = x

\* the value of a run of decimal digits
RECURSIVE NumVal(_)
NumVal(s) == IF Len(s) = 0 THEN 0 ELSE 10 * NumVal(SubSeq(s, 1, Len(s) - 1)) + DigitVal(s[Len(s)])

\* the decimal digits of a natural number, as str() and "%d" write them
RECURSIVE NatChars(_)
NatChars(n) == IF n < 10 THEN <<DigitChars[n + 1]>> ELSE NatChars(n \div 10) \o <<DigitChars[(n % 10) + 1]>>

\* a natural number written on at least w digits, zero padded, as "%02d" does
RECURSIVE Padded(_, _)
Padded(n, w) == IF Len(NatChars(n)) >= w THEN NatChars(n) ELSE <<"0">> \o Padded(n, w - 1)

\* the number of consecutive digits of s from position i on
RECURSIVE DigitRun(_, _)
DigitRun(s, i) == IF i <= Len(s) /\ IsDigit(s[i]) THEN 1 + DigitRun(s, i + 1) ELSE 0

\* the number of consecutive whitespace characters of s from position i on
RECURSIVE SpaceRun(_, _)
SpaceRun(s, i) == IF i <= Len(s) /\ IsSpace(s[i]) THEN 1 + SpaceRun(s, i + 1) ELSE 0

(***************************************************************************)
(* _calculate_shift_duration.                                              *)
(***************************************************************************)
Min(a, b) == IF a <= b THEN a ELSE b

\* [hH] at position j: the h of the pattern under re.IGNORECASE
IsH(s, j) == j <= Len(s) /\ s[j] \in {"h", "H"}

\* \d{1,2} followed by h, at position i: the number of digits taken, 0 if none
HourDigits(s, i) ==
    IF DigitRun(s, i) >= 2 /\ IsH(s, i + 2) THEN 2
    ELSE IF DigitRun(s, i) >= 1 /\ IsH(s, i + 1) THEN 1
    ELSE 0

\* (?:-|à|au) at position j under re.IGNORECASE: the characters taken, 0 if none
ConnLen(s, j) ==
    IF j > Len(s) THEN 0
    ELSE IF s[j] \in {"-", "à", "À"} THEN 1
    ELSE IF s[j] \in {"a", "A"} /\ j + 1 <= Len(s) /\ s[j + 1] \in {"u", "U"} THEN 2
    ELSE 0

\* the pattern (\d{1,2}h\d{0,2})\s*(?:-|à|au)\s*(\d{1,2}h\d{0,2}) tried at
\* position i. The first \d{0,2} must take the whole run of digits, since what
\* follows it is whitespace or a connector; the last one takes up to two digits.
TimeRangeAt(s, i) ==
    LET h1 == HourDigits(s, i)
        p1 == i + h1 + 1
        r1 == DigitRun(s, p1)
        q1 == p1 + r1
        q2 == q1 + SpaceRun(s, q1)
        c  == ConnLen(s, q2)
        q3 == q2 + c
        q4 == q3 + SpaceRun(s, q3)
        h2 == HourDigits(s, q4)
        p2 == q4 + h2 + 1
        r2 == Min(2, DigitRun(s, p2))
    IN  IF h1 > 0 /\ r1 <= 2 /\ c > 0 /\ h2 > 0
        THEN [ok |-> TRUE, g1 |-> SubSeq(s, i, q1 - 1), g2 |-> SubSeq(s, q4, p2 + r2 - 1)]
        ELSE [ok |-> FALSE, g1 |-> <<>>, g2 |-> <<>>]

\* re.search: the match at the leftmost position that has one
TimeSearch(s) ==
    LET hits == {i \in 1..Len(s) : TimeRangeAt(s, i).ok}
    IN  IF hits = {} THEN [ok |-> FALSE, g1 |-> <<>>, g2 |-> <<>>]
        ELSE TimeRangeAt(s, CHOOSE i \in hits : \A j \in hits : i <= j)

\* str.replace("h", ":"): the lower-case h only
ReplaceH(s) == [i \in 1..Len(s) |-> IF s[i] = "h" THEN ":" ELSE s[i]]

\* datetime.strptime(s, "%H:%M"): %H is 2[0-3]|[0-1]\d|\d, %M is [0-5]\d|\d, and
\* the whole string must be consumed; ok = FALSE stands for ValueError
Strptime(s) ==
    LET hl == IF Len(s) >= 3 /\ s[1] = "2" /\ s[2] \in {"0", "1", "2", "3"} /\ s[3] = ":" THEN 2
              ELSE IF Len(s) >= 3 /\ s[1] \in {"0", "1"} /\ IsDigit(s[2]) /\ s[3] = ":" THEN 2
              ELSE IF Len(s) >= 2 /\ IsDigit(s[1]) /\ s[2] = ":" THEN 1
              ELSE 0
        p  == hl + 2
        ml == IF p + 1 <= Len(s) /\ s[p] \in {"0", "1", "2", "3", "4", "5"} /\ IsDigit(s[p + 1]) THEN 2
              ELSE IF p <= Len(s) /\ IsDigit(s[p]) THEN 1
              ELSE 0
    IN  IF hl > 0 /\ ml > 0 /\ p + ml - 1 = Len(s)
        THEN [ok |-> TRUE, hour |-> NumVal(SubSeq(s, 1, hl)), minute |-> NumVal(SubSeq(s, p, Len(s)))]
        ELSE [ok |-> FALSE, hour |-> 0, minute |-> 0]

SecondsPerHour == 3600

SecondsPerDay == 86400

\* (end - start).seconds // 3600 for two times of day, end moved to the next
\* day when it is earlier than start
DurationHours(start, end) ==
    LET s  == start.hour * 3600 + start.minute * 60
        e0 == end.hour * 3600 + end.minute * 60
        e  == IF e0 < s THEN e0 + SecondsPerDay ELSE e0
    IN  (e - s) \div SecondsPerHour

\* _calculate_shift_duration(text); <<>> is the empty string
CalculateShiftDuration(t) ==
    LET m == TimeSearch(t)
    IN  IF ~m.ok THEN <<>>
        ELSE LET start == Strptime(ReplaceH(m.g1))
                 end   == Strptime(ReplaceH(m.g2))
             IN  IF ~start.ok \/ ~end.ok THEN <<>>
                 ELSE NatChars(DurationHours(start, end)) \o <<"h">>

(***************************************************************************)
(* Dates: the regex fallback and _parse_date.                              *)
(***************************************************************************)
\* \d{2}/\d{2}/\d{4} between two \b, tried at position i
DatePatternAt(s, i) ==
    /\ i + 9 <= Len(s)
    /\ \A k \in {0, 1, 3, 4, 6, 7, 8, 9} : IsDigit(s[i + k])
    /\ s[i + 2] = "/"
    /\ s[i + 5] = "/"
    /\ (i = 1 \/ ~IsWordChar(s[i - 1]))
    /\ (i + 10 > Len(s) \/ ~IsWordChar(s[i + 10]))

\* re.findall(r"\b(\d{2}/\d{2}/\d{4})\b", s) from position i on: the matches
\* left to right, none overlapping another
RECURSIVE DateFindAll(_, _)
DateFindAll(s, i) ==
    IF i > Len(s) THEN <<>>
    ELSE IF DatePatternAt(s, i) THEN <<SubSeq(s, i, i + 9)>> \o DateFindAll(s, i + 10)
    ELSE DateFindAll(s, i + 1)

\* the loop of the fallback: each match is appended unless already in the list
RECURSIVE AppendMissing(_, _)
AppendMissing(dates, matches) ==
    IF matches = <<>> THEN dates
    ELSE AppendMissing(IF InList(Head(matches), dates) THEN dates ELSE Append(dates, Head(matches)),
                       Tail(matches))

IsLeap(y) == (y % 4 = 0 /\ y % 100 # 0) \/ y % 400 = 0

DaysIn(m, y) ==
    IF m = 2 THEN (IF IsLeap(y) THEN 29 ELSE 28)
    ELSE IF m \in {4, 6, 9, 11} THEN 30
    ELSE 31

NoDate == [ok |-> FALSE, day |-> 0, month |-> 0, year |-> 0]

\* The spans the model hands to dateutil: text with no digit at all, or text
\* whose digits are one group D[D]/D[D]/DDDD; the words around it are words
\* dateutil does not know, which fuzzy=True skips.
FirstDigit(s) == CHOOSE i \in 1..Len(s) : IsDigit(s[i]) /\ \A j \in 1..(i - 1) : ~IsDigit(s[j])

NumericDateShape(s) ==
    /\ \E i \in 1..Len(s) : IsDigit(s[i])
    /\ LET i  == FirstDigit(s)
           r1 == DigitRun(s, i)
           j  == i + r1 + 1
           r2 == DigitRun(s, j)
           k  == j + r2 + 1
           r3 == DigitRun(s, k)
       IN  /\ r1 \in {1, 2} /\ r2 \in {1, 2} /\ r3 = 4
           /\ s[i + r1] = "/" /\ s[j + r2] = "/"
           /\ \A n \in (k + 4)..Len(s) : ~IsDigit(s[n]) /\ s[n] # "/"

InDateClass(s) == (\A i \in 1..Len(s) : ~IsDigit(s[i]) /\ s[i] # "/") \/ NumericDateShape(s)

\* dateutil's parser.parse(s, dayfirst=True, fuzzy=True) on such a span: three
\* numbers a/b/y with a four-digit year resolve as day/month when a > 12 or
\* b <= 12 and as month/day otherwise; a span without a date, or a day or month
\* out of range, raises (ok = FALSE)
ParserParse(s) ==
    IF ~NumericDateShape(s) THEN NoDate
    ELSE LET i  == FirstDigit(s)
             r1 == DigitRun(s, i)
             j  == i + r1 + 1
             r2 == DigitRun(s, j)
             k  == j + r2 + 1
             a  == NumVal(SubSeq(s, i, i + r1 - 1))
             b  == NumVal(SubSeq(s, j, j + r2 - 1))
             y  == NumVal(SubSeq(s, k, k + 3))
             d  == IF a > 12 \/ b <= 12 THEN a ELSE b
             m  == IF a > 12 \/ b <= 12 THEN b ELSE a
         IN  IF a <= 31 /\ y >= 1 /\ m \in 1..12 /\ d >= 1 /\ d <= DaysIn(m, y)
             THEN [ok |-> TRUE, day |-> d, month |-> m, year |-> y]
             ELSE NoDate

\* date.strftime("%d/%m/%Y")
Strftime(date) == Padded(date.day, 2) \o <<"/">> \o Padded(date.month, 2) \o <<"/">> \o Padded(date.year, 4)

MinYear == 2020

MaxYear == 2030

\* the test of _parse_date on the parsed year
YearAccepted(y) == MinYear < y /\ y < MaxYear

\* _parse_date(text, requirements): the value of requirements["dates"] after it
ParseDate(s, dates) ==
    LET date == ParserParse(s)
    IN  IF date.ok /\ YearAccepted(date.year) THEN Append(dates, Strftime(date)) ELSE dates

(***************************************************************************)
(* The pipeline self.nlp: tokens, the entity ruler's patterns, and the     *)
(* statistical recognizer, whose answer is an input of the model.          *)
(***************************************************************************)
\* a token: its text and the whitespace that follows it
Tok(t, w) == [text |-> t, ws |-> w]

\* the text a sequence of tokens spells
RECURSIVE TextOf(_)
TextOf(toks) == IF toks = <<>> THEN <<>> ELSE Head(toks).text \o Head(toks).ws \o TextOf(Tail(toks))

\* Span.text: tokens a..b without the whitespace after the last one
SpanText(toks, a, b) == TextOf(SubSeq(toks, a, b - 1)) \o toks[b].text

ProfessionWords ==
    {<<"i", "n", "f", "i", "r", "m", "i", "e", "r">>,
     <<"i", "n", "f", "i", "r", "m", "i", "è", "r", "e">>,
     <<"i", "n", "f">>,
     <<"p", "a", "b">>,
     <<"a", "u", "x", "i", "l", "i", "a", "i", "r", "e">>}

ShiftWords ==
    {<<"j", "o", "u", "r">>,
     <<"s", "o", "i", "r">>,
     <<"n", "u", "i", "t">>}

UrgencyLemmas ==
    {<<"u", "r", "g", "e", "n", "t">>,
     <<"i", "m", "m", "é", "d", "i", "a", "t">>,
     <<"u", "r", "g", "e", "n", "c", "e">>,
     <<"a", "s", "a", "p">>}

\* Token.lemma_ for the words of the model: the inflected forms of "urgent"
\* reduce to it, every other word to its lower-cased text
Lemma(t) ==
    IF Lower(t) \in {<<"u", "r", "g", "e", "n", "t", "e">>, <<"u", "r", "g", "e", "n", "t", "s">>, <<"u", "r", "g", "e", "n", "t", "e", "s">>}
    THEN <<"u", "r", "g", "e", "n", "t">>
    ELSE Lower(t)

\* the three patterns of _setup_nlp_pipeline, tried at token i: the span that
\* starts there, or none (end = 0)
RulerAt(toks, i) ==
    IF Lower(toks[i].text) \in ProfessionWords
    THEN [label |-> "MEDICAL_PROFESSION", start |-> i, end |-> i]
    ELSE IF /\ i + 2 <= Len(toks)
            /\ Lower(toks[i].text) = <<"q", "u", "a", "r", "t">>
            /\ Lower(toks[i + 1].text) = <<"d", "e">>
            /\ Lower(toks[i + 2].text) \in ShiftWords
    THEN [label |-> "SHIFT_TIME", start |-> i, end |-> i + 2]
    ELSE IF Lemma(toks[i].text) \in UrgencyLemmas
    THEN [label |-> "URGENCY", start |-> i, end |-> i]
    ELSE [label |-> "", start |-> i, end |-> 0]

\* the entity ruler runs before ner: its spans, left to right
RECURSIVE RulerEnts(_, _)
RulerEnts(toks, i) ==
    IF i > Len(toks) THEN <<>>
    ELSE IF RulerAt(toks, i).end = 0 THEN RulerEnts(toks, i + 1)
    ELSE <<RulerAt(toks, i)>> \o RulerEnts(toks, RulerAt(toks, i).end + 1)

\* the tokens the ruler's spans cover, which ner leaves alone
Covered(toks) ==
    LET r == RulerEnts(toks, 1)
    IN  UNION {r[k].start..r[k].end : k \in 1..Len(r)}

\* the labels the statistical recognizer may give
NerLabels == {"GPE", "LOC", "DATE", "PER"}

\* the subsets of S of at most n elements
RECURSIVE SubsetsUpTo(_, _)
SubsetsUpTo(S, n) ==
    IF n = 0 THEN {{}}
    ELSE SubsetsUpTo(S, n - 1) \cup {a \cup {x} : a \in SubsetsUpTo(S, n - 1), x \in S}

\* the answers the recognizer may give for toks: at most n one-token spans on
\* tokens the ruler left free (DATE on the spans ParserParse is modelled for)
NerAnswers(toks, n) ==
    LET free == (1..Len(toks)) \ Covered(toks)
        one  == {[label |-> l, start |-> i, end |-> i] : l \in NerLabels, i \in free}
        ok   == {e \in one : e.label = "DATE" => InDateClass(toks[e.start].text)}
    IN  {a \in SubsetsUpTo(ok, n) : \A e, f \in a : e.start = f.start => e = f}

\* doc.ents: the ruler's and the recognizer's spans in document order, each
\* with its text
RECURSIVE DocEnts(_, _, _)
DocEnts(toks, ner, i) ==
    IF i > Len(toks) THEN <<>>
    ELSE LET at == {e \in Range(RulerEnts(toks, 1)) \cup ner : e.start = i}
         IN  IF at = {} THEN DocEnts(toks, ner, i + 1)
             ELSE LET e == CHOOSE x \in at : TRUE
                  IN  <<[label |-> e.label, text |-> SpanText(toks, e.start, e.end)]>>
                      \o DocEnts(toks, ner, e.end + 1)

(***************************************************************************)
(* State of a run.                                                         *)
(***************************************************************************)
\* requirements as extract_requirements creates it
EmptyRequirements ==
    [profession |-> <<>>, shifts |-> <<>>, locations |-> <<>>, dates |-> <<>>,
     shift_duration |-> <<>>, urgence |-> FALSE]

LocationBlacklist ==
    {<<"b", "o", "n", "j", "o", "u", "r">>,
     <<"m", "e", "r", "c", "i">>,
     <<"s", "e", "r", "v", "i", "c", "e">>,
     <<"r", "h">>,
     <<"c", "o", "r", "d", "i", "a", "l", "e", "m", "e", "n", "t">>}

UrgencyKeywords ==
    {<<"u", "r", "g", "e", "n", "t">>,
     <<"u", "r", "g", "e", "n", "c", "e">>,
     <<"i", "m", "m", "é", "d", "i", "a", "t">>,
     <<"a", "s", "a", "p">>,
     <<"r", "a", "p", "i", "d", "e", "m", "e", "n", "t">>}

\* the label process_emails gives a message without a profession
NonClasse == <<"n", "o", "n", "_", "c", "l", "a", "s", "s", "e">>

NoEmail == [subject |-> <<>>, body |-> <<>>, from |-> "", date |-> ""]

NoOracle == [tokens |-> <<>>, ner |-> {}]

NoReturn == [returned |-> FALSE, value |-> <<>>]

(***************************************************************************)
(* Inputs.                                                                 *)
(***************************************************************************)
\* the phrases the texts of SpecExtract are made of
Phrases ==
    {<<Tok(<<"1", "5", "/", "0", "3", "/", "2", "0", "2", "5">>, <<" ">>)>>,
     <<Tok(<<"1", "5", "/", "0", "3", "/", "2", "0", "1", "9">>, <<" ">>)>>,
     <<Tok(<<"0", "1", "/", "0", "1", "/", "2", "0", "3", "1">>, <<" ">>)>>,
     <<Tok(<<"5", "/", "3", "/", "2", "0", "2", "5">>, <<" ">>)>>,
     <<Tok(<<"M", "e", "r", "c", "i">>, <<" ">>)>>,
     <<Tok(<<"M", "o", "n", "t", "r", "é", "a", "l">>, <<" ">>)>>,
     <<Tok(<<"u", "r", "g", "e", "n", "t", "e">>, <<" ">>)>>,
     <<Tok(<<"R", "a", "p", "i", "d", "e", "m", "e", "n", "t">>, <<" ">>)>>,
     <<Tok(<<"I", "N", "F">>, <<" ">>)>>,
     <<Tok(<<"q", "u", "a", "r", "t">>, <<" ">>),
      Tok(<<"d", "e">>, <<" ">>),
      Tok(<<"N", "u", "i", "t">>, <<" ">>)>>,
     <<Tok(<<"1", "9", "h", "-", "7", "h">>, <<" ">>)>>}

\* the token sequences made of at most n phrases
RECURSIVE PhraseSeqs(_)
PhraseSeqs(n) ==
    IF n = 0 THEN {<<>>}
    ELSE PhraseSeqs(n - 1) \cup {a \o b : a \in PhraseSeqs(n - 1), b \in Phrases}

ScenarioTokens ==
    <<Tok(<<"B", "e", "s", "o", "i", "n">>, <<" ">>),
      Tok(<<"d", "'">>, <<>>),
      Tok(<<"u", "n", "e">>, <<" ">>),
      Tok(<<"i", "n", "f", "i", "r", "m", "i", "è", "r", "e">>, <<" ">>),
      Tok(<<"u", "r", "g", "e", "n", "t">>, <<" ">>),
      Tok(<<"p", "o", "u", "r">>, <<" ">>),
      Tok(<<"u", "n">>, <<" ">>),
      Tok(<<"q", "u", "a", "r", "t">>, <<" ">>),
      Tok(<<"d", "e">>, <<" ">>),
      Tok(<<"n", "u", "i", "t">>, <<" ">>),
      Tok(<<"à">>, <<" ">>),
      Tok(<<"M", "o", "n", "t", "r", "é", "a", "l">>, <<" ">>),
      Tok(<<"l", "e">>, <<" ">>),
      Tok(<<"1", "5", "/", "0", "3", "/", "2", "0", "2", "5">>, <<>>),
      Tok(<<",">>, <<" ">>),
      Tok(<<"d", "e">>, <<" ">>),
      Tok(<<"1", "9", "h">>, <<" ">>),
      Tok(<<"à">>, <<" ">>),
      Tok(<<"7", "h">>, <<>>)>>

\* the unseen messages a mailbox of Spec may hold, each with the recognizer's
\* answer for its text (token positions count the subject, then the line
\* break, then the body)
Corpus ==
    {[subject |-> <<Tok(<<"D", "e", "m", "a", "n", "d", "e">>, <<>>)>>, has_subject |-> TRUE, body |-> ScenarioTokens,
      from |-> "chef@hopital.example", date |-> "d1",
      ner |-> {[label |-> "LOC", start |-> 14, end |-> 14],
               [label |-> "DATE", start |-> 16, end |-> 16]}],
     [subject |-> <<Tok(<<"M", "e", "r", "c", "i">>, <<>>)>>, has_subject |-> TRUE,
      body |-> <<Tok(<<"I", "N", "F">>, <<" ">>),
      Tok(<<"i", "n", "f">>, <<" ">>),
      Tok(<<"P", "A", "B">>, <<" ">>),
      Tok(<<"l", "e">>, <<" ">>),
      Tok(<<"1", "5", "/", "0", "3", "/", "2", "0", "2", "5">>, <<" ">>),
      Tok(<<"1", "5", "/", "0", "3", "/", "2", "0", "2", "5">>, <<>>)>>,
      from |-> "rh@hopital.example", date |-> "d2",
      ner |-> {[label |-> "GPE", start |-> 1, end |-> 1],
               [label |-> "DATE", start |-> 7, end |-> 7],
               [label |-> "DATE", start |-> 8, end |-> 8]}],
     [subject |-> <<Tok(<<"B", "o", "n", "j", "o", "u", "r">>, <<>>)>>, has_subject |-> TRUE,
      body |-> <<Tok(<<"8", "H", "0", "0">>, <<" ">>),
      Tok(<<"à">>, <<" ">>),
      Tok(<<"1", "6", "H", "0", "0">>, <<" ">>),
      Tok(<<"1", "5", "/", "0", "3", "/", "2", "0", "1", "9">>, <<" ">>),
      Tok(<<"R", "a", "p", "i", "d", "e", "m", "e", "n", "t">>, <<>>)>>,
      from |-> "rh@hopital.example", date |-> "d3",
      ner |-> {[label |-> "PER", start |-> 1, end |-> 1]}],
     [subject |-> <<>>, body |-> <<>>, has_subject |-> FALSE,
      from |-> "inconnu@hopital.example", date |-> "d4", ner |-> {}]}

RECURSIVE SeqsUpTo(_, _)
SeqsUpTo(S, n) ==
    IF n = 0 THEN {<<>>}
    ELSE SeqsUpTo(S, n - 1) \cup {Append(q, x) : q \in SeqsUpTo(S, n - 1), x \in S}

TypeIdle ==
    /\ parsed_email = NoEmail
    /\ doc_ents = <<>>
    /\ ei = 1
    /\ requirements = EmptyRequirements
    /\ results = <<>>
    /\ ret = NoReturn
    /\ log = <<>>
    /\ moved = {}

\* a run of process_emails on a mailbox of at most MaxEmails unseen messages
Init ==
    /\ conn = "none"
    /\ mailbox \in SeqsUpTo(Corpus, MaxEmails)
    /\ emails = <<>>
    /\ idx = 1
    /\ pc = "connect"
    /\ text = <<>>
    /\ oracle = NoOracle
    /\ TypeIdle

\* one call of extract_requirements on a text of at most MaxPhrases phrases
InitExtract ==
    /\ conn = "open"
    /\ mailbox = <<>>
    /\ emails = <<>>
    /\ idx = 1
    /\ pc = "nlp"
    /\ \E toks \in PhraseSeqs(MaxPhrases) :
         /\ text = TextOf(toks)
         /\ \E a \in NerAnswers(toks, MaxNerEnts) : oracle = [tokens |-> toks, ner |-> a]
    /\ TypeIdle

(***************************************************************************)
(* extract_requirements.                                                   *)
(***************************************************************************)
\* the id of the message the loop of process_emails is at (0 outside it)
CurId == IF idx <= Len(emails) THEN emails[idx] ELSE 0

Logged(step, ok) == Append(log, [step |-> step, id |-> CurId, ok |-> ok])

\* the body of the loop over doc.ents: what one entity does to the record
RouteEntity(ent, req) ==
    IF ent.label \in {"GPE", "LOC"} /\ Lower(ent.text) \notin LocationBlacklist
    THEN [req EXCEPT !.locations = Append(@, ent.text)]
    ELSE IF ent.label = "DATE"
    THEN [req EXCEPT !.dates = ParseDate(ent.text, @)]
    ELSE IF ent.label = "MEDICAL_PROFESSION"
    THEN [req EXCEPT !.profession = Append(@, Upper(ent.text))]
    ELSE IF ent.label = "SHIFT_TIME"
    THEN [req EXCEPT !.shifts = Append(@, Lower(ent.text))]
    ELSE IF ent.label = "URGENCY"
    THEN [req EXCEPT !.urgence = TRUE]
    ELSE req

\* the keyword test without lower()
HasUrgencyKeywordCaseSensitive(t) == \E w \in UrgencyKeywords : Contains(t, w)

\* any(word in text.lower() for word in urgency_keywords)
HasUrgencyKeyword(t) == \E w \in UrgencyKeywords : Contains(Lower(t), w)

\* the urgency fallback: what it does to the record
UrgencyFallback(t, req) ==
    IF HasUrgencyKeyword(t) THEN [req EXCEPT !.urgence = TRUE] ELSE req

\* the date fallback: what it does to the record
DateFallback(t, req) == [req EXCEPT !.dates = AppendMissing(@, DateFindAll(t, 1))]

\* list(set(xs)): the distinct elements of xs, in an order the build chooses
ListOfSet(xs) ==
    LET S == Range(xs)
    IN  {q \in [1..Cardinality(S) -> S] : Range(q) = S}

\* doc = self.nlp(text), then the record is created
NlpOk ==
    /\ pc = "nlp"
    /\ doc_ents' = DocEnts(oracle.tokens, oracle.ner, 1)
    /\ ei' = 1
    /\ requirements' = EmptyRequirements
    /\ pc' = "ents"
    /\ log' = Logged("extract", TRUE)
    /\ UNCHANGED <<conn, mailbox, moved, emails, idx, parsed_email, text, oracle, results, ret>>

\* self.nlp(text) raises: extract_requirements has no handler, the exception
\* reaches the handler of process_emails
NlpRaises ==
    /\ pc = "nlp"
    /\ pc' = "except"
    /\ log' = Logged("extract", FALSE)
    /\ UNCHANGED <<conn, mailbox, moved, emails, idx, parsed_email, text, oracle,
                   doc_ents, ei, requirements, results, ret>>

\* one turn of `for ent in doc.ents`
EntStep ==
    /\ pc = "ents"
    /\ ei <= Len(doc_ents)
    /\ requirements' = RouteEntity(doc_ents[ei], requirements)
    /\ ei' = ei + 1
    /\ UNCHANGED <<conn, mailbox, moved, emails, idx, pc, parsed_email, text, oracle,
                   doc_ents, results, ret, log>>

\* the loop is over: re.findall and the loop over date_matches
RegexDates ==
    /\ pc = "ents"
    /\ ei > Len(doc_ents)
    /\ requirements' = DateFallback(text, requirements)
    /\ pc' = "urgency"
    /\ UNCHANGED <<conn, mailbox, moved, emails, idx, parsed_email, text, oracle,
                   doc_ents, ei, results, ret, log>>

\* the keyword test on text.lower()
UrgencyStep ==
    /\ pc = "urgency"
    /\ requirements' = UrgencyFallback(text, requirements)
    /\ pc' = "duration"
    /\ UNCHANGED <<conn, mailbox, moved, emails, idx, parsed_email, text, oracle,
                   doc_ents, ei, results, ret, log>>

\* requirements["shift_duration"] = self._calculate_shift_duration(text)
DurationStep ==
    /\ pc = "duration"
    /\ requirements' = [requirements EXCEPT !.shift_duration = CalculateShiftDuration(text)]
    /\ pc' = "cleanup"
    /\ UNCHANGED <<conn, mailbox, moved, emails, idx, parsed_email, text, oracle,
                   doc_ents, ei, results, ret, log>>

\* the three list(set(...)), then return requirements
Cleanup ==
    /\ pc = "cleanup"
    /\ \E p \in ListOfSet(requirements.profession),
          s \in ListOfSet(requirements.shifts),
          l \in ListOfSet(requirements.locations) :
         requirements' = [requirements EXCEPT !.profession = p, !.shifts = s, !.locations = l]
    /\ pc' = "classify"
    /\ UNCHANGED <<conn, mailbox, moved, emails, idx, parsed_email, text, oracle,
                   doc_ents, ei, results, ret, log>>

NextExtract ==
    \/ NlpOk
    \/ NlpRaises
    \/ EntStep
    \/ RegexDates
    \/ UrgencyStep
    \/ DurationStep
    \/ Cleanup

SpecExtract == InitExtract /\ [][NextExtract]_vars

(***************************************************************************)
(* process_emails.                                                         *)
(***************************************************************************)
\* connect(): the login succeeds
ConnectOk ==
    /\ pc = "connect"
    /\ conn' = "open"
    /\ pc' = "search"
    /\ UNCHANGED <<mailbox, moved, emails, idx, parsed_email, text, oracle, doc_ents, ei,
                   requirements, results, ret, log>>

\* connect(): the login fails, the error is printed and self.conn stays None
ConnectFails ==
    /\ pc = "connect"
    /\ conn' = "none"
    /\ pc' = "search"
    /\ UNCHANGED <<mailbox, moved, emails, idx, parsed_email, text, oracle, doc_ents, ei,
                   requirements, results, ret, log>>

\* emails = self.conn.search(["UNSEEN"]); results = []
SearchOk ==
    /\ pc = "search"
    /\ conn = "open"
    /\ emails' = [i \in 1..Len(mailbox) |-> i]
    /\ results' = <<>>
    /\ idx' = 1
    /\ pc' = "loop"
    /\ UNCHANGED <<conn, mailbox, moved, parsed_email, text, oracle, doc_ents, ei,
                   requirements, ret, log>>

\* the search raises: self.conn is None, or the server fails
SearchRaises ==
    /\ pc = "search"
    /\ pc' = "except"
    /\ UNCHANGED <<conn, mailbox, moved, emails, idx, parsed_email, text, oracle, doc_ents, ei,
                   requirements, results, ret, log>>

\* raw_email = self.conn.fetch([email_id], ["BODY[]"])[email_id]
FetchOk ==
    /\ pc = "loop"
    /\ idx <= Len(emails)
    /\ pc' = "parse"
    /\ log' = Logged("fetch", TRUE)
    /\ UNCHANGED <<conn, mailbox, moved, emails, idx, parsed_email, text, oracle, doc_ents, ei,
                   requirements, results, ret>>

\* the fetch raises
FetchRaises ==
    /\ pc = "loop"
    /\ idx <= Len(emails)
    /\ pc' = "except"
    /\ log' = Logged("fetch", FALSE)
    /\ UNCHANGED <<conn, mailbox, moved, emails, idx, parsed_email, text, oracle, doc_ents, ei,
                   requirements, results, ret>>

\* parse_email(raw_email), then the text f"{subject}\n{body}" is built and
\* handed to extract_requirements
ParseOk ==
    /\ pc = "parse"
    /\ LET raw == mailbox[emails[idx]]
       IN  /\ raw.has_subject
           /\ parsed_email' = [subject |-> TextOf(raw.subject), body |-> TextOf(raw.body),
                               from |-> raw.from, date |-> raw.date]
           /\ text' = TextOf(raw.subject) \o <<"\n">> \o TextOf(raw.body)
           /\ oracle' = [tokens |-> raw.subject \o <<Tok(<<"\n">>, <<>>)>> \o raw.body,
                         ner |-> raw.ner]
    /\ pc' = "nlp"
    /\ log' = Logged("parse", TRUE)
    /\ UNCHANGED <<conn, mailbox, moved, emails, idx, doc_ents, ei, requirements, results, ret>>

\* parse_email raises: decode_header(None) on a message without a Subject
ParseRaises ==
    /\ pc = "parse"
    /\ ~mailbox[emails[idx]].has_subject
    /\ pc' = "except"
    /\ log' = Logged("parse", FALSE)
    /\ UNCHANGED <<conn, mailbox, moved, emails, idx, parsed_email, text, oracle, doc_ents, ei,
                   requirements, results, ret>>

\* the last profession instead of the first
ClassificationLast(req) == IF req.profession # <<>> THEN req.profession[Len(req.profession)] ELSE NonClasse

\* requirements["profession"][0] if requirements["profession"] else "non_classe"
Classification(req) == IF req.profession # <<>> THEN req.profession[1] ELSE NonClasse

\* mark_as_processed called before results.append
ClassifyAfterMark ==
    /\ pc = "classify"
    /\ results' = Append(results, [id |-> CurId,
                                   classification |-> Classification(requirements),
                                   requirements |-> requirements,
                                   from |-> parsed_email.from,
                                   date |-> parsed_email.date,
                                   processed |-> TRUE])
    /\ moved' = moved \cup {CurId}
    /\ idx' = idx + 1
    /\ pc' = "loop"
    /\ log' = log \o <<[step |-> "mark", id |-> CurId, ok |-> TRUE],
                       [step |-> "append", id |-> CurId, ok |-> TRUE]>>
    /\ UNCHANGED <<conn, mailbox, emails, parsed_email, text, oracle, doc_ents, ei,
                   requirements, ret>>

\* the classification, then results.append({...})
Classify ==
    /\ pc = "classify"
    /\ results' = Append(results, [id |-> CurId,
                                   classification |-> Classification(requirements),
                                   requirements |-> requirements,
                                   from |-> parsed_email.from,
                                   date |-> parsed_email.date,
                                   processed |-> TRUE])
    /\ pc' = "mark"
    /\ log' = Logged("append", TRUE)
    /\ UNCHANGED <<conn, mailbox, moved, emails, idx, parsed_email, text, oracle, doc_ents, ei,
                   requirements, ret>>

\* mark_as_processed(email_id): the message is moved, the loop goes on
MarkOk ==
    /\ pc = "mark"
    /\ moved' = moved \cup {CurId}
    /\ idx' = idx + 1
    /\ pc' = "loop"
    /\ log' = Logged("mark", TRUE)
    /\ UNCHANGED <<conn, mailbox, emails, parsed_email, text, oracle, doc_ents, ei,
                   requirements, results, ret>>

\* mark_as_processed(email_id): a call on the server raises, the handler of
\* mark_as_processed prints the error, the loop goes on
MarkFails ==
    /\ pc = "mark"
    /\ idx' = idx + 1
    /\ pc' = "loop"
    /\ log' = Logged("mark", FALSE)
    /\ UNCHANGED <<conn, mailbox, moved, emails, parsed_email, text, oracle, doc_ents, ei,
                   requirements, results, ret>>

\* the loop is over: return results
ReturnResults ==
    /\ pc = "loop"
    /\ idx > Len(emails)
    /\ ret' = [returned |-> TRUE, value |-> results]
    /\ pc' = "done"
    /\ UNCHANGED <<conn, mailbox, moved, emails, idx, parsed_email, text, oracle, doc_ents, ei,
                   requirements, results, log>>

\* except Exception: the error is printed, return []
Except ==
    /\ pc = "except"
    /\ ret' = [returned |-> TRUE, value |-> <<>>]
    /\ pc' = "done"
    /\ UNCHANGED <<conn, mailbox, moved, emails, idx, parsed_email, text, oracle, doc_ents, ei,
                   requirements, results, log>>

Next ==
    \/ ConnectOk
    \/ ConnectFails
    \/ SearchOk
    \/ SearchRaises
    \/ FetchOk
    \/ FetchRaises
    \/ ParseOk
    \/ ParseRaises
    \/ NlpOk
    \/ NlpRaises
    \/ EntStep
    \/ RegexDates
    \/ UrgencyStep
    \/ DurationStep
    \/ Cleanup
    \/ Classify
    \/ MarkOk
    \/ MarkFails
    \/ ReturnResults
    \/ Except

Spec == Init /\ [][Next]_vars

(***************************************************************************)
(* _calculate_shift_duration on its own.                                   *)
(***************************************************************************)
\* the hours of the inputs, written without and with a leading zero
HourForms == {NatChars(h) : h \in 0..MaxHourIn} \cup {Padded(8, 2)}

MinuteForms == {<<>>, <<"0", "0">>, <<"3", "0">>, <<"5">>, <<"6", "0">>}

TimeForms == {h \o <<c>> \o m : h \in HourForms, c \in {"h", "H"}, m \in MinuteForms}

Connectors == {<<"-">>, <<" ", "à", " ">>, <<" ", "a", "u", " ">>}

\* one call of _calculate_shift_duration on a text that is a time range
InitDuration ==
    /\ conn = "open"
    /\ mailbox = <<>>
    /\ emails = <<>>
    /\ idx = 1
    /\ pc = "duration"
    /\ text \in {a \o c \o b : a \in TimeForms, c \in Connectors, b \in TimeForms}
    /\ oracle = NoOracle
    /\ TypeIdle

NextDuration == DurationStep

SpecDuration == InitDuration /\ [][NextDuration]_vars

(***************************************************************************)
(* Properties.                                                             *)
(***************************************************************************)
NoDup(q) == \A i, j \in 1..Len(q) : i # j => q[i] # q[j]

Failed(step) == {k \in 1..Len(log) : log[k].step = step /\ ~log[k].ok}

Appended == {log[k].id : k \in {j \in 1..Len(log) : log[j].step = "append"}}

Returned == {ret.value[n].id : n \in 1..Len(ret.value)}

Attempted == {log[k].id : k \in {j \in 1..Len(log) : log[j].step = "fetch"}}

\* C1: when the fetch of one message fails, the run still goes on to every
\* other message, and the records computed for the other messages are in the
\* list process_emails returns.
FetchFailureIsolated ==
    pc = "done" =>
        \A k \in Failed("fetch") :
            /\ Appended \subseteq Returned
            /\ Range(emails) \ {log[k].id} \subseteq Attempted

\* C2: when the recognizer raises on one message, no record is made for that
\* message, the run ends normally, and every other message of the run still
\* has its record in the list process_emails returns unless its own steps fail.
RecognizerFailureIsolated ==
    pc = "done" =>
        \A k \in Failed("extract") :
            /\ log[k].id \notin Returned
            /\ ret.returned
            /\ \A i \in Range(emails) \ {log[k].id} :
                 \/ i \in Returned
                 \/ \E j \in Failed("fetch") \cup Failed("parse") \cup Failed("extract") : log[j].id = i

\* C3: when extract_requirements returns, requirements["dates"] holds no value
\* twice.
DatesNoDuplicate == pc = "classify" => NoDup(requirements.dates)

YearOf(d) == NumVal(SubSeq(d, 7, 10))

\* C4: when extract_requirements returns, every date of requirements["dates"]
\* has a year strictly between 2020 and 2030, and every DD/MM/YYYY token of the
\* text with a year from 2021 to 2029 is in requirements["dates"].
ImplausibleYearsRejected ==
    pc = "classify" =>
        /\ \A i \in 1..Len(requirements.dates) : YearOf(requirements.dates[i]) \in 2021..2029
        /\ \A m \in Range(DateFindAll(text, 1)) :
             YearOf(m) \in 2021..2029 => InList(m, requirements.dates)

\* a time expression H[H]h[MM] read as the specification reads it: hours, then
\* minutes, zero when there are none
HPos(g) == CHOOSE i \in 1..Len(g) : g[i] \in {"h", "H"}

ClockOf(g) ==
    [hour    |-> NumVal(SubSeq(g, 1, HPos(g) - 1)),
     minute  |-> NumVal(SubSeq(g, HPos(g) + 1, Len(g))),
     written |-> Len(g) > HPos(g)]

ValidClock(c) == c.hour \in 0..23 /\ c.minute \in 0..59

\* the elapsed time from start to end, end on the next day when it is earlier
\* than start, in whole hours, written "<N>h"
ElapsedHours(start, end) ==
    NatChars((((end.hour * 60 + end.minute) - (start.hour * 60 + start.minute)) % (24 * 60)) \div 60)
        \o <<"h">>

\* C5: for a matched range whose two times carry no minutes, the minutes count
\* as zero and _calculate_shift_duration returns the whole-hour duration.
NoMinutesDuration ==
    (pc = "cleanup" /\ TimeSearch(text).ok) =>
        LET start == ClockOf(TimeSearch(text).g1)
            end   == ClockOf(TimeSearch(text).g2)
        IN  (ValidClock(start) /\ ValidClock(end) /\ ~start.written /\ ~end.written)
                => requirements.shift_duration = ElapsedHours(start, end)

\* C6: for every matched pair of valid clock times, _calculate_shift_duration
\* returns "<N>h" with N the elapsed time modulo one day, in whole hours.
DurationIsElapsedHours ==
    (pc = "cleanup" /\ TimeSearch(text).ok) =>
        LET start == ClockOf(TimeSearch(text).g1)
            end   == ClockOf(TimeSearch(text).g2)
        IN  (ValidClock(start) /\ ValidClock(end))
                => requirements.shift_duration = ElapsedHours(start, end)

\* The part of C6 the code computes as specified: both times written with a
\* lower-case h and with their minutes.
DurationOfWrittenMinutes ==
    (pc = "cleanup" /\ TimeSearch(text).ok) =>
        LET g1    == TimeSearch(text).g1
            g2    == TimeSearch(text).g2
            start == ClockOf(g1)
            end   == ClockOf(g2)
        IN  (/\ ValidClock(start) /\ ValidClock(end)
             /\ start.written /\ end.written
             /\ g1[HPos(g1)] = "h" /\ g2[HPos(g2)] = "h")
                => requirements.shift_duration = ElapsedHours(start, end)

\* C7: a message whose mark_as_processed failed still has its record in the
\* list process_emails returns.
MarkFailureKeepsResult ==
    pc = "done" => \A k \in Failed("mark") : log[k].id \in Returned

\* The part of C7 the code does: the mark of a message, failed or not, leaves
\* results as it is and hands the run back to the loop.
MarkStepKeepsResults == [][pc = "mark" => (results' = results /\ pc' = "loop")]_vars

UrgencySpan(ents) == \E i \in 1..Len(ents) : ents[i].label = "URGENCY"

KeywordInText(t) ==
    \E w \in UrgencyKeywords : \E i \in 1..Len(t) :
        i + Len(w) - 1 <= Len(t) /\ \A k \in 1..Len(w) : LowerChar(t[i + k - 1]) = w[k]

Unclassified == <<"u", "n", "c", "l", "a", "s", "s", "i", "f", "i", "e", "d">>

\* C9 as the specification words it: a record without a profession is
\* classified "unclassified", any other by its first profession.
ClassifiedUnclassified ==
    \A n \in 1..Len(results) :
        /\ results[n].requirements.profession = <<>> => results[n].classification = Unclassified
        /\ results[n].requirements.profession # <<>>
             => results[n].classification = results[n].requirements.profession[1]

\* C9, amended: a record without a profession is classified "non_classe", any
\* other by the first element of its profession list, which holds no value
\* twice.
ClassifiedNonClasse ==
    \A n \in 1..Len(results) :
        /\ NoDup(results[n].requirements.profession)
        /\ results[n].requirements.profession = <<>> => results[n].classification = NonClasse
        /\ results[n].requirements.profession # <<>>
             => /\ results[n].classification = results[n].requirements.profession[1]
                /\ results[n].classification \in Range(results[n].requirements.profession)

BothClassifications ==
    /\ \E n \in 1..Len(results) :
         /\ results[n].requirements.profession = <<>>
         /\ results[n].classification = NonClasse
    /\ \E n \in 1..Len(results) :
         /\ Len(results[n].requirements.profession) >= 2
         /\ results[n].classification = results[n].requirements.profession[1]

StepOrder == <<"fetch", "parse", "extract", "append", "mark">>

\* C10: the steps of a run come message after message, in the order of emails,
\* and for each message in the order fetch, parse, extract, append, mark; a
\* step that fails is the last one of the run unless it is a mark; and the mark
\* of a message starts with its record the last of results.
StepsStrictlyOrdered ==
    /\ \A k \in 1..Len(log) :
         /\ log[k].step = StepOrder[((k - 1) % 5) + 1]
         /\ ((k - 1) \div 5) + 1 <= Len(emails)
         /\ log[k].id = emails[((k - 1) \div 5) + 1]
         /\ k < Len(log) => (log[k].ok \/ log[k].step = "mark")
    /\ pc = "mark" => (results # <<>> /\ results[Len(results)].id = CurId)

TwoMessagesMarked ==
    /\ Len(log) = 10
    /\ log[5].step = "mark"
    /\ log[10].step = "mark"
    /\ Len(results) = 2

====
